---------------------------- MODULE Spec2Model ----------------------------
(*
  State-machine model of the three scraper pipelines (ZaraScraper,
  DemoScraper, TestScraper), their main() wrappers and the command line
  entry points that run them.

  One behaviour is one process: an entry point constructs a scraper, enters
  the async context manager (start_browser), runs run_scrape, leaves the
  context manager (cleanup, where the class has one), returns the record to
  the entry point, which exits.

  Failure model.  Every awaited Playwright call and the file write of
  save_html either returns or raises; the page may deliver "pageerror" and
  "requestfailed" events while the main task is suspended in an await.
  page.get_by_role is called with a function as name, where the library
  takes a string or a pattern: the call raises before anything is awaited
  and the handler around it (zara_scraper.py:225-226) swallows the
  exception.  Calls to the console and to the logger are taken to return.
  Under that failure model (Spec, SpecEq, SpecBanners, SpecElems) the outer
  handlers of handle_cookie_popup (zara_scraper.py:232-237) and of run_scrape
  (zara_scraper.py:487-493) are not reachable: every raising call inside them
  sits inside a narrower try block.  SpecEscape adds the runs in which an
  exception reaches the handler of run_scrape: there console.print may also
  raise where no step catches it, in the body of run_scrape (start panel,
  final panel) and in the handler of a step after a call of the step raised.
  The console calls inside the try block of a step, and those of the handlers
  of run_scrape and of main(), return in every specification.

  Optional values (None or a value) are sequences of length at most one.
*)
EXTENDS Integers, Sequences, FiniteSets, TLC

\* ------------------------------------------------------------------ bounds
\* page-error events delivered during one run
MaxPageErrors ==
    1

\* elements matched by the extraction selector
MaxElems ==
    2

\* elements matched by the extraction selector in the runs that are compared
\* across classes
EqMaxElems ==
    1

\* distinct clock readings at construction time
NumStamps ==
    2

\* matched elements beyond the 20 that extract_hero_banners reads, in the
\* runs of the extraction step alone
ExtraElems ==
    1

\* ------------------------------------------------------- program constants
\* length of cookie_selectors in handle_cookie_popup
NumSelectors ==
    10

\* range(min(count, 20)) in extract_hero_banners
MaxBanners ==
    20

\* SCRAPING_CONFIG["max_retries"]: defined in config.py, read by no scraper
max_retries ==
    3

ZARA_HOME_URL ==
    "https://www.zara.com/"

DEMO_URL ==
    "https://httpbin.org/html"

TEST_URL ==
    "https://example.com"

\* config.py ZARA_URLS: the fallback list no scraper imports
ZARA_URLS ==
    <<"https://www.zara.com/", "https://www.zara.com/us/",
      "https://www.zara.com/en/", "https://www.zara.com/us/en/">>

Classes ==
    {"zara", "demo", "test"}

\* the entry points: <<script, scraper class>>
EntryPoints ==
    { <<"run_scraper", "zara">>, <<"run_demo", "demo">>,
      <<"module", "zara">>, <<"module", "demo">>, <<"module", "test">> }

\* ------------------------------------------------------------ value helpers
None ==
    <<>>

Some(x) ==
    <<x>>

\* outcome of a call: it raised, or it returned a value
Raise ==
    <<>>

Ok ==
    <<"ok">>

\* dict.get(key, default)
Get(d, k, default) ==
    IF k \in DOMAIN d THEN d[k] ELSE default

\* d[key] = value, adding the key when absent
Put(d, k, v) ==
    [x \in (DOMAIN d) \cup {k} |-> IF x = k THEN v ELSE d[x]]

\* the letters str.lower() changes and what it changes them to (ASCII)
UpperLetters ==
    <<"A", "B", "C", "D", "E", "F", "G", "H", "I", "J", "K", "L", "M",
      "N", "O", "P", "Q", "R", "S", "T", "U", "V", "W", "X", "Y", "Z">>

LowerLetters ==
    <<"a", "b", "c", "d", "e", "f", "g", "h", "i", "j", "k", "l", "m",
      "n", "o", "p", "q", "r", "s", "t", "u", "v", "w", "x", "y", "z">>

\* str.lower() on one character: an upper-case letter becomes its lower-case
\* letter, every other character is left as it is
LowerChar(c) ==
    IF \E i \in 1..Len(UpperLetters) : UpperLetters[i] = c
    THEN LowerLetters[CHOOSE i \in 1..Len(UpperLetters) : UpperLetters[i] = c]
    ELSE c

Lower(s) ==
    [i \in 1..Len(s) |-> LowerChar(s[i])]

\* sub in s
Contains(sub, s) ==
    \E k \in 0..(Len(s) - Len(sub)) :
        \A i \in 1..Len(sub) : s[k + i] = sub[i]

\* variant: the test is for "zar"
TitleIsZara_accepts_zar(title) ==
    Contains(<<"z", "a", "r">>, Lower(title))

\* "zara" in title.lower()
TitleIsZara(title) ==
    Contains(<<"z", "a", "r", "a">>, Lower(title))

\* str.strip() on texts made of blanks and letters
RECURSIVE LStrip(_)
LStrip(s) ==
    IF s # <<>> /\ Head(s) = " " THEN LStrip(Tail(s)) ELSE s

RECURSIVE RStrip(_)
RStrip(s) ==
    IF s # <<>> /\ s[Len(s)] = " " THEN RStrip(SubSeq(s, 1, Len(s) - 1)) ELSE s

Strip(s) ==
    RStrip(LStrip(s))

\* page titles the browser may report
Titles ==
    { <<"Z", "A", "R", "A">>, <<"a", "Z", "a", "r", "a", "!">>,
      <<"z", "a", "r">>, <<"H", "M">>, <<>> }

\* inner_text() values of a matched element
Texts ==
    { <<" ", "S", " ">>, <<" ", " ">> }

\* get_attribute("href") values of a matched element: None, "", a link
Hrefs ==
    { None, Some(<<>>), Some(<<"/", "s">>) }

\* el.tagName.toLowerCase() values
Tags ==
    { "h1" }

Stamps ==
    1..NumStamps

\* ------------------------------------------------------ per-class constants
UrlOf(c) ==
    CASE c = "zara" -> ZARA_HOME_URL
      [] c = "demo" -> DEMO_URL
      [] c = "test" -> TEST_URL

OutputDir(c) ==
    CASE c = "zara" -> "data/scrapes"
      [] c = "demo" -> "data/demo_scrapes"
      [] c = "test" -> "data/test_scrapes"

FilePrefix(c) ==
    CASE c = "zara" -> "zara_homepage_"
      [] c = "demo" -> "demo_page_"
      [] c = "test" -> "test_page_"

\* str(HTML_DIR / f"<prefix>{timestamp}.html")
HtmlPath(c, ts) ==
    <<OutputDir(c), "html", FilePrefix(c), ts, ".html">>

\* variant: the screenshot name is built from a later reading of the clock
ScreenshotPath_fresh_clock(c, ts) ==
    <<OutputDir(c), "screenshots", FilePrefix(c), (ts % NumStamps) + 1, ".png">>

\* str(SCREENSHOTS_DIR / f"<prefix>{timestamp}.png")
ScreenshotPath(c, ts) ==
    <<OutputDir(c), "screenshots", FilePrefix(c), ts, ".png">>

\* key under which run_scrape stores the extracted items
ItemsKey(c) ==
    IF c = "zara" THEN "banners" ELSE "extracted_data"

\* key of the counter the extraction step updates
CountKey(c) ==
    IF c = "zara" THEN "banners_found" ELSE "headings_found"

\* the prefix of the message each handler appends to scrape_data["errors"]
ErrMsg(c, kind) ==
    CASE kind = "start"   -> "Failed to start browser"
      [] kind = "nav"     -> IF c = "zara" THEN "Failed to navigate to homepage"
                                           ELSE "Failed to navigate to page"
      [] kind = "html"    -> "Failed to save HTML"
      [] kind = "shot"    -> "Failed to save screenshot"
      [] kind = "extract" -> IF c = "zara" THEN "Failed to extract banners"
                                           ELSE "Failed to extract data"
      [] kind = "cookie"  -> "Error handling cookie popup"
      [] kind = "page"    -> "Page error"
      [] kind = "scrape"  -> CASE c = "zara" -> "Scraping failed"
                               [] c = "demo" -> "Demo scraping failed"
                               [] c = "test" -> "Test scraping failed"

\* self.scrape_data as __init__ leaves it
InitRecord(c, ts) ==
    IF c = "zara"
    THEN [timestamp |-> ts, url |-> UrlOf(c), locale |-> "en-US",
          success |-> FALSE, html_file |-> None, screenshot_file |-> None,
          banners_found |-> 0, errors |-> <<>>]
    ELSE [timestamp |-> ts, url |-> UrlOf(c), locale |-> "en-US",
          success |-> FALSE, html_file |-> None, screenshot_file |-> None,
          title |-> None, headings_found |-> 0, errors |-> <<>>]

\* variant: the handlers of TestScraper log without appending
AppendError_test_logs_only(r, c, kind) ==
    IF c = "test" THEN r ELSE [r EXCEPT !.errors = Append(@, ErrMsg(c, kind))]

\* self.scrape_data["errors"].append(error_msg)
AppendError(r, c, kind) ==
    [r EXCEPT !.errors = Append(@, ErrMsg(c, kind))]

\* str(e) of the exception a browser call raised: a text that names the call
ExcText(call) ==
    <<"exception", call>>

\* variant: the record main() builds carries the message only
FailureRecord_message_only(msg) ==
    [error |-> msg]

\* the record main() builds in its own except clause
FailureRecord(msg) ==
    [success |-> FALSE, error |-> msg]

\* variant: the two exit codes are swapped
exit_status_swapped(results) ==
    IF Get(results, "success", FALSE) = TRUE THEN 1 ELSE 0

\* exit(0 if results.get("success") else 1); run_test and run_demo first
\* reduce the record to results.get('success', False)
exit_status(results) ==
    IF Get(results, "success", FALSE) = TRUE THEN 0 ELSE 1

\* ------------------------------------------------------------------- state
VARIABLES
    cli,        \* the script that was started
    cls,        \* the scraper class it runs
    pc,         \* the await (or return) the main task is at
    timestamp,  \* self.timestamp
    rec,        \* self.scrape_data
    result,     \* Some(record main() returned), None before
    exitCode,   \* Some(process exit status), None before
    pw,         \* self.browser, the Playwright instance: none/started/stopped
    ctx,        \* self.context: none/open/closed
    handlers,   \* page.on("pageerror") / page.on("requestfailed") registered
    selIdx,     \* handle_cookie_popup: index of the selector being examined
    found,      \* handle_cookie_popup: selectors whose count() was > 0
    clicked,    \* handle_cookie_popup: the clicks that returned, in order
    roleTried,  \* handle_cookie_popup: page.get_by_role was called
    popupRet,   \* handle_cookie_popup: Some(return value)
    sleeps,     \* handle_cookie_popup: asyncio.sleep calls made
    nElems,     \* extraction: number of matched elements
    elIdx,      \* extraction: loop index i
    elFirst,    \* extraction: Some(value of the first read of element i)
    items,      \* extraction: the list being built, then the returned list
    trace,      \* history: pipeline steps in the order they were started
    active,     \* history: steps started and not yet finished
    gotos,      \* history: URLs passed to page.goto
    failed,     \* history: operations in which a call raised
    actor,      \* history: who took the last step: main task, page-error
                \* callback ("callback") or request-failed callback ("request")
    pageErrs,   \* history: page-error events delivered
    returned,   \* history: Some(value) the call of each step returned
    replay,     \* comparison runs: outcomes are recorded and replayed
    oracle,     \* comparison runs: outcome recorded per browser call
    done        \* comparison runs: summary of each finished run

vars ==
    <<cli, cls, pc, timestamp, rec, result, exitCode, pw, ctx, handlers, selIdx, found,
      clicked, roleTried, popupRet, sleeps, nElems, elIdx, elFirst, items,
      trace, active, gotos, failed, actor, pageErrs, returned, replay, oracle,
      done>>

cookieVars ==
    <<selIdx, found, clicked, roleTried, popupRet, sleeps>>

extractVars ==
    <<nElems, elIdx, elFirst, items>>

browserVars ==
    <<pw, ctx, handlers>>

setupVars ==
    <<cli, cls, timestamp, replay, done>>

\* --------------------------------------------------- outcomes of the calls
\* browser calls every class makes; their outcomes are what a comparison of
\* two classes holds equal
SharedCalls ==
    ({"pw_start", "launch", "new_context", "new_page", "goto", "wait_dom",
      "title", "content", "screenshot", "wait_idle", "match",
      "ctx_close", "pw_stop"} \X {0})
    \cup ({"text", "href", "tag"} \X (0..(MaxElems + EqMaxElems)))

\* the outcomes call k may have now
Outcome(k, S) ==
    IF replay /\ k \in DOMAIN oracle /\ oracle[k] # None
    THEN {oracle[k][1]}
    ELSE S

\* record the outcome of call k
Note(k, o) ==
    oracle' = IF replay /\ k \in DOMAIN oracle
              THEN [oracle EXCEPT ![k] = Some(o)]
              ELSE oracle

\* the calls whose return value is kept in the history
ReturnSteps ==
    {"title", "navigate", "save_html", "save_screenshot"}

NoReturns ==
    [s \in ReturnSteps |-> None]

InitRun(c) ==
    /\ cls = c
    /\ pc = "init"
    /\ timestamp \in Stamps
    /\ rec = InitRecord(c, timestamp)
    /\ result = None
    /\ exitCode = None
    /\ pw = "none"
    /\ ctx = "none"
    /\ handlers = FALSE
    /\ selIdx = 0
    /\ found = {}
    /\ clicked = None
    /\ roleTried = FALSE
    /\ popupRet = None
    /\ sleeps = 0
    /\ nElems = 0
    /\ elIdx = 0
    /\ elFirst = None
    /\ items = <<>>
    /\ trace = <<>>
    /\ active = <<>>
    /\ gotos = <<>>
    /\ failed = {}
    /\ actor = "main"
    /\ pageErrs = 0
    /\ returned = NoReturns

Init ==
    /\ \E e \in EntryPoints : cli = e[1] /\ InitRun(e[2])
    /\ replay = FALSE
    /\ oracle = [k \in SharedCalls |-> None]
    /\ done = [c \in Classes |-> None]

\* ------------------------------------------------ main(): leaving the run
\* run_scrape has returned r inside "async with": __aexit__ runs.  ZaraScraper
\* has an empty __aexit__, so main returns at once; the other classes await
\* cleanup() first.
LeaveRun(r) ==
    /\ rec' = r
    /\ active' = <<>>
    /\ IF cls = "zara"
       THEN /\ pc' = "main_ret"
            /\ result' = Some(r)
       ELSE /\ pc' = "ctx_close"
            /\ result' = result

\* ------------------------------------------------------------ start_browser
StartPcs ==
    {"pw_start", "launch", "new_context", "new_page"}

NextStartPc(p) ==
    CASE p = "pw_start"    -> "launch"
      [] p = "launch"      -> "new_context"
      [] p = "new_context" -> "new_page"
      [] p = "new_page"    -> "goto"

\* main(): "async with Scraper(...)" calls __aenter__, which calls start_browser
aenter ==
    /\ pc = "init"
    /\ pc' = "pw_start"
    /\ trace' = Append(trace, "launch")
    /\ active' = <<"launch">>
    /\ actor' = "main"
    /\ UNCHANGED <<rec, result, exitCode, gotos, failed, oracle, pageErrs>>
    /\ UNCHANGED <<browserVars, cookieVars, extractVars, setupVars>>
    /\ UNCHANGED returned

\* one awaited call of start_browser.  When the last one returns the handlers
\* are registered, __aenter__ returns, run_scrape starts and calls the
\* navigation step.  When one raises, the handler appends to the error list and
\* re-raises; the exception leaves __aenter__ and main() catches it.
start_browser ==
    /\ pc \in StartPcs
    /\ \E o \in Outcome(<<pc, 0>>, {Raise, Ok}) :
        /\ Note(<<pc, 0>>, o)
        /\ IF o = Ok
           THEN /\ pw' = IF pc = "pw_start" THEN "started" ELSE pw
                /\ ctx' = IF pc = "new_context" THEN "open" ELSE ctx
                /\ handlers' = (pc = "new_page")
                /\ pc' = NextStartPc(pc)
                /\ trace' = IF pc = "new_page" THEN Append(trace, "navigate")
                                               ELSE trace
                /\ active' = IF pc = "new_page" THEN <<"navigate">> ELSE active
                /\ UNCHANGED <<rec, result, failed>>
           ELSE /\ rec' = AppendError(rec, cls, "start")
                /\ failed' = failed \cup {"start"}
                /\ result' = Some(FailureRecord(ExcText(pc)))
                /\ pc' = "main_ret"
                /\ active' = <<>>
                /\ UNCHANGED <<pw, ctx, handlers, trace>>
    /\ actor' = "main"
    /\ UNCHANGED <<exitCode, gotos, pageErrs>>
    /\ UNCHANGED <<cookieVars, extractVars, setupVars>>
    /\ UNCHANGED returned

\* ------------------------------------- navigate_to_homepage / navigate_to_page
NavPcs ==
    {"goto", "wait_dom", "title"}

NavOutcomes(p) ==
    IF p = "title" THEN {Raise} \cup {Some(t) : t \in Titles} ELSE {Raise, Ok}

\* the locals of handle_cookie_popup go out of scope
CookieReset ==
    /\ selIdx' = 0
    /\ found' = {}
    /\ clicked' = None
    /\ roleTried' = FALSE
    /\ popupRet' = None
    /\ sleeps' = 0

\* variant: a failed page.goto is retried while fewer than max_retries
\* attempts were made
NavigateFailed_retry ==
    IF pc = "goto" /\ Len(gotos) + 1 < max_retries
    THEN /\ rec' = AppendError(rec, cls, "nav")
         /\ failed' = failed \cup {"nav"}
         /\ trace' = Append(trace, "navigate")
         /\ pc' = "goto"
         /\ returned' = [returned EXCEPT !["navigate"] = Some(FALSE)]
         /\ UNCHANGED <<active, result>>
    ELSE /\ LeaveRun([AppendError(rec, cls, "nav") EXCEPT !.success = FALSE])
         /\ failed' = failed \cup {"nav"}
         /\ trace' = trace
         /\ returned' = [returned EXCEPT !["navigate"] = Some(FALSE)]

\* variant: run_scrape ignores the False return and goes on to save_html
NavigateFailed_continues ==
    /\ rec' = AppendError(rec, cls, "nav")
    /\ failed' = failed \cup {"nav"}
    /\ returned' = [returned EXCEPT !["navigate"] = Some(FALSE)]
    /\ pc' = "content"
    /\ trace' = Append(trace, "save_html")
    /\ active' = <<"save_html">>
    /\ result' = result

\* a call of the navigation step raised: the handler appends one error and
\* returns False, run_scrape sets success False and returns the record
NavigateFailed ==
    /\ LeaveRun([AppendError(rec, cls, "nav") EXCEPT !.success = FALSE])
    /\ failed' = failed \cup {"nav"}
    /\ trace' = trace
    /\ returned' = [returned EXCEPT !["navigate"] = Some(FALSE)]

\* one awaited call of the navigation step: page.goto, wait_for_load_state,
\* page.title.  ZaraScraper calls handle_cookie_popup between the last two and
\* returns False for a title without "zara"; the other classes store the
\* title.  A False return makes run_scrape set success False and return; a
\* True return makes run_scrape call save_html.
navigate ==
    /\ pc \in NavPcs
    /\ \E o \in Outcome(<<pc, 0>>, NavOutcomes(pc)) :
        /\ Note(<<pc, 0>>, o)
        /\ IF o = Raise
           THEN NavigateFailed
           ELSE /\ failed' = failed
                /\ CASE pc = "goto" ->
                          /\ pc' = "wait_dom"
                          /\ UNCHANGED <<rec, result, trace, active, returned>>
                     [] pc = "wait_dom" /\ cls = "zara" ->
                          /\ pc' = "ck_sleep"
                          /\ trace' = Append(trace, "popup")
                          /\ active' = <<"navigate", "popup">>
                          /\ UNCHANGED <<rec, result, returned>>
                     [] pc = "wait_dom" /\ cls # "zara" ->
                          /\ pc' = "title"
                          /\ UNCHANGED <<rec, result, trace, active, returned>>
                     [] pc = "title" /\ cls = "zara" /\ ~TitleIsZara(o[1]) ->
                          /\ LeaveRun([rec EXCEPT !.success = FALSE])
                          /\ trace' = trace
                          /\ returned' = [returned EXCEPT !["title"] = o,
                                                          !["navigate"] = Some(FALSE)]
                     [] pc = "title" /\ cls = "zara" /\ TitleIsZara(o[1]) ->
                          /\ pc' = "content"
                          /\ trace' = Append(trace, "save_html")
                          /\ active' = <<"save_html">>
                          /\ returned' = [returned EXCEPT !["title"] = o,
                                                          !["navigate"] = Some(TRUE)]
                          /\ UNCHANGED <<rec, result>>
                     [] pc = "title" /\ cls # "zara" ->
                          /\ rec' = [rec EXCEPT !.title = Some(o[1])]
                          /\ pc' = "content"
                          /\ trace' = Append(trace, "save_html")
                          /\ active' = <<"save_html">>
                          /\ returned' = [returned EXCEPT !["title"] = o,
                                                          !["navigate"] = Some(TRUE)]
                          /\ UNCHANGED result
    /\ gotos' = IF pc = "goto" THEN Append(gotos, UrlOf(cls)) ELSE gotos
    /\ IF pc = "title" THEN CookieReset ELSE UNCHANGED cookieVars
    /\ actor' = "main"
    /\ UNCHANGED <<exitCode, pageErrs>>
    /\ UNCHANGED <<browserVars, extractVars, setupVars>>

\* ------------------------------------------------------ handle_cookie_popup
\* await asyncio.sleep(2), then the loop over cookie_selectors starts
cookie_sleep ==
    /\ pc = "ck_sleep"
    /\ sleeps' = sleeps + 1
    /\ selIdx' = 1
    /\ pc' = "ck_count"
    /\ actor' = "main"
    /\ UNCHANGED <<found, clicked, roleTried, popupRet>>
    /\ UNCHANGED <<rec, result, exitCode, trace, active, gotos, failed, oracle, pageErrs>>
    /\ UNCHANGED <<browserVars, extractVars, setupVars>>
    /\ UNCHANGED returned

\* variant: the role-based approach reports that it handled the popup
RoleFallback_reports_handled ==
    /\ roleTried' = TRUE
    /\ failed' = failed
    /\ popupRet' = Some(TRUE)
    /\ pc' = "title"
    /\ active' = <<"navigate">>

\* the role-based approach after the loop: page.get_by_role("button",
\* name=<function>) is given a function where Playwright takes a string or a
\* pattern, so the call raises before a locator exists and before any await;
\* the handler logs at debug level and the routine falls through to its final
\* "return False", in the same step as the end of the loop
RoleFallback ==
    /\ roleTried' = TRUE
    /\ failed' = failed \cup {"cookie"}
    /\ popupRet' = Some(FALSE)
    /\ pc' = "title"
    /\ active' = <<"navigate">>

\* "continue" after a call that raised, or the end of the loop body: the next
\* selector, or the role-based approach after the last
CookieAdvance(raised) ==
    IF selIdx < NumSelectors
    THEN /\ selIdx' = selIdx + 1
         /\ pc' = "ck_count"
         /\ failed' = IF raised THEN failed \cup {"cookie"} ELSE failed
         /\ UNCHANGED <<roleTried, popupRet, active>>
    ELSE /\ selIdx' = selIdx
         /\ RoleFallback

\* variant: the loop goes on after a successful click
CookieClicked_no_return ==
    /\ clicked' = Append(clicked, selIdx)
    /\ CookieAdvance(FALSE)

\* variant: the routine returns False after a click that returned
CookieClicked_returns_false ==
    /\ clicked' = Append(clicked, selIdx)
    /\ popupRet' = Some(FALSE)
    /\ pc' = "title"
    /\ selIdx' = selIdx
    /\ active' = <<"navigate">>
    /\ UNCHANGED <<roleTried, failed>>

\* element.first.click() returned: "return True" leaves the routine
CookieClicked ==
    /\ clicked' = Append(clicked, selIdx)
    /\ popupRet' = Some(TRUE)
    /\ pc' = "title"
    /\ selIdx' = selIdx
    /\ active' = <<"navigate">>
    /\ UNCHANGED <<roleTried, failed>>

\* one awaited call of the selector loop: element.count() or
\* element.first.click().  A raise is caught inside the loop and logged at
\* debug level only.
cookie_scan ==
    /\ pc \in {"ck_count", "ck_click"}
    /\ IF pc = "ck_count"
       THEN \E o \in {"raise", "none", "some"} :
              /\ IF o = "some"
                 THEN /\ found' = found \cup {selIdx}
                      /\ pc' = "ck_click"
                      /\ selIdx' = selIdx
                      /\ UNCHANGED <<roleTried, failed, popupRet, active>>
                 ELSE /\ found' = found
                      /\ CookieAdvance(o = "raise")
              /\ clicked' = clicked
       ELSE \E o \in {Raise, Ok} :
              /\ IF o = Ok
                 THEN CookieClicked
                 ELSE /\ CookieAdvance(TRUE)
                      /\ clicked' = clicked
              /\ found' = found
    /\ actor' = "main"
    /\ sleeps' = sleeps
    /\ UNCHANGED <<rec, result, exitCode, trace, gotos, oracle, pageErrs>>
    /\ UNCHANGED <<browserVars, extractVars, setupVars>>
    /\ UNCHANGED returned

\* variant: run_scrape goes from save_html straight to the extraction step
save_html_skips_screenshot ==
    /\ pc = "content"
    /\ \E o \in Outcome(<<"content", 0>>, {Raise, Some("write_raises"), Ok}) :
        /\ Note(<<"content", 0>>, o)
        /\ IF o = Ok
           THEN /\ rec' = [rec EXCEPT !.html_file = Some(HtmlPath(cls, timestamp))]
                /\ failed' = failed
                /\ returned' = [returned EXCEPT !["save_html"] =
                                   Some(Some(HtmlPath(cls, timestamp)))]
           ELSE /\ rec' = AppendError(rec, cls, "html")
                /\ failed' = failed \cup {"html"}
                /\ returned' = [returned EXCEPT !["save_html"] = Some(None)]
    /\ pc' = "wait_idle"
    /\ trace' = Append(trace, "extract")
    /\ active' = <<"extract">>
    /\ actor' = "main"
    /\ UNCHANGED <<result, exitCode, gotos, pageErrs>>
    /\ UNCHANGED <<browserVars, cookieVars, extractVars, setupVars>>

\* ----------------------------------------------------------------- save_html
\* await page.content(), then the file is opened and written; on success the
\* path is stored.  run_scrape then calls save_screenshot.
save_html ==
    /\ pc = "content"
    /\ \E o \in Outcome(<<"content", 0>>, {Raise, Some("write_raises"), Ok}) :
        /\ Note(<<"content", 0>>, o)
        /\ IF o = Ok
           THEN /\ rec' = [rec EXCEPT !.html_file = Some(HtmlPath(cls, timestamp))]
                /\ failed' = failed
                /\ returned' = [returned EXCEPT !["save_html"] =
                                   Some(Some(HtmlPath(cls, timestamp)))]
           ELSE /\ rec' = AppendError(rec, cls, "html")
                /\ failed' = failed \cup {"html"}
                /\ returned' = [returned EXCEPT !["save_html"] = Some(None)]
    /\ pc' = "screenshot"
    /\ trace' = Append(trace, "save_screenshot")
    /\ active' = <<"save_screenshot">>
    /\ actor' = "main"
    /\ UNCHANGED <<result, exitCode, gotos, pageErrs>>
    /\ UNCHANGED <<browserVars, cookieVars, extractVars, setupVars>>

\* variant: the path is stored before page.screenshot is awaited
save_screenshot_stores_path_first ==
    /\ pc = "screenshot"
    /\ \E o \in Outcome(<<"screenshot", 0>>, {Raise, Ok}) :
        /\ Note(<<"screenshot", 0>>, o)
        /\ IF o = Ok
           THEN /\ rec' = [rec EXCEPT !.screenshot_file =
                                        Some(ScreenshotPath(cls, timestamp))]
                /\ failed' = failed
                /\ returned' = [returned EXCEPT !["save_screenshot"] =
                                   Some(Some(ScreenshotPath(cls, timestamp)))]
           ELSE /\ rec' = [AppendError(rec, cls, "shot") EXCEPT !.screenshot_file =
                                        Some(ScreenshotPath(cls, timestamp))]
                /\ failed' = failed \cup {"shot"}
                /\ returned' = [returned EXCEPT !["save_screenshot"] = Some(None)]
    /\ pc' = "wait_idle"
    /\ trace' = Append(trace, "extract")
    /\ active' = <<"extract">>
    /\ actor' = "main"
    /\ UNCHANGED <<result, exitCode, gotos, pageErrs>>
    /\ UNCHANGED <<browserVars, cookieVars, extractVars, setupVars>>

\* ----------------------------------------------------------- save_screenshot
\* await page.screenshot(path, full_page=True); on success the path is
\* stored.  run_scrape then calls the extraction step.
save_screenshot ==
    /\ pc = "screenshot"
    /\ \E o \in Outcome(<<"screenshot", 0>>, {Raise, Ok}) :
        /\ Note(<<"screenshot", 0>>, o)
        /\ IF o = Ok
           THEN /\ rec' = [rec EXCEPT !.screenshot_file =
                                        Some(ScreenshotPath(cls, timestamp))]
                /\ failed' = failed
                /\ returned' = [returned EXCEPT !["save_screenshot"] =
                                   Some(Some(ScreenshotPath(cls, timestamp)))]
           ELSE /\ rec' = AppendError(rec, cls, "shot")
                /\ failed' = failed \cup {"shot"}
                /\ returned' = [returned EXCEPT !["save_screenshot"] = Some(None)]
    /\ pc' = "wait_idle"
    /\ trace' = Append(trace, "extract")
    /\ active' = <<"extract">>
    /\ actor' = "main"
    /\ UNCHANGED <<result, exitCode, gotos, pageErrs>>
    /\ UNCHANGED <<browserVars, cookieVars, extractVars, setupVars>>

\* ------------------------------------- extract_hero_banners / extract_data
Min(a, b) ==
    IF a <= b THEN a ELSE b

\* variant: ZaraScraper loops over every matched element
LoopLimit_uncapped(c, n) ==
    n

\* number of loop iterations: range(min(count, 20)) in ZaraScraper, every
\* heading in the other classes
LoopLimit(c, n) ==
    IF c = "zara" THEN Min(n, MaxBanners) ELSE n

\* variant: TestScraper keeps headings whose text is blank
Keeps_test_keeps_blank(c, href, text) ==
    CASE c = "zara" -> href # None /\ href[1] # <<>> /\ Strip(text) # <<>>
      [] c = "demo" -> Strip(text) # <<>>
      [] c = "test" -> TRUE

\* "if href and text.strip()" (ZaraScraper) / "if text.strip()" (others)
Keeps(c, href, text) ==
    IF c = "zara"
    THEN href # None /\ href[1] # <<>> /\ Strip(text) # <<>>
    ELSE Strip(text) # <<>>

\* the dict appended for element i
Item(c, href, text, tag, i) ==
    IF c = "zara"
    THEN [text |-> Strip(text), href |-> href[1], index |-> i]
    ELSE [type |-> tag, text |-> Strip(text), index |-> i]

\* variant: the outer handler logs the failure without appending it
ExtractFail_unrecorded ==
    /\ rec' = rec
    /\ failed' = failed \cup {"extract"}
    /\ items' = <<>>
    /\ pc' = "report"
    /\ active' = <<>>
    /\ UNCHANGED <<nElems, elIdx, elFirst>>

\* the outer handler of the extraction step: one error, the empty list
ExtractFail ==
    /\ rec' = AppendError(rec, cls, "extract")
    /\ failed' = failed \cup {"extract"}
    /\ items' = <<>>
    /\ pc' = "report"
    /\ active' = <<>>
    /\ UNCHANGED <<nElems, elIdx, elFirst>>

\* variant: the counter is set to the number of matched elements
ExtractReturn_counts_matched(newItems) ==
    /\ rec' = [rec EXCEPT ![CountKey(cls)] = nElems']
    /\ items' = newItems
    /\ pc' = "report"
    /\ active' = <<>>

\* the loop is over: the counter is updated and the list returned
ExtractReturn(newItems) ==
    /\ rec' = [rec EXCEPT ![CountKey(cls)] = Len(newItems)]
    /\ items' = newItems
    /\ pc' = "report"
    /\ active' = <<>>

\* "continue" or the end of the loop body for element elIdx
NextElem(newItems) ==
    /\ elFirst' = None
    /\ nElems' = nElems
    /\ IF elIdx + 1 < LoopLimit(cls, nElems)
       THEN /\ elIdx' = elIdx + 1
            /\ items' = newItems
            /\ pc' = "el_a"
            /\ UNCHANGED <<rec, active>>
       ELSE /\ elIdx' = elIdx
            /\ ExtractReturn(newItems)

\* the largest number of matched elements the page is given
ElemBound ==
    IF replay THEN EqMaxElems ELSE MaxElems

\* the calls before the loop: wait_for_load_state("networkidle"), then
\* locator.count() (ZaraScraper) or query_selector_all (others)
extract_begin ==
    /\ pc \in {"wait_idle", "match"}
    /\ IF pc = "wait_idle"
       THEN \E o \in Outcome(<<"wait_idle", 0>>, {Raise, Ok}) :
              /\ Note(<<"wait_idle", 0>>, o)
              /\ IF o = Ok
                 THEN /\ pc' = "match"
                      /\ UNCHANGED <<rec, failed, active, extractVars>>
                 ELSE ExtractFail
       ELSE \E o \in Outcome(<<"match", 0>>,
                             {Raise} \cup {Some(n) : n \in 0..ElemBound}) :
              /\ Note(<<"match", 0>>, o)
              /\ IF o = Raise
                 THEN ExtractFail
                 ELSE /\ nElems' = o[1]
                      /\ elIdx' = 0
                      /\ elFirst' = None
                      /\ failed' = failed
                      /\ IF LoopLimit(cls, o[1]) > 0
                         THEN /\ pc' = "el_a"
                              /\ items' = <<>>
                              /\ UNCHANGED <<rec, active>>
                         ELSE ExtractReturn(<<>>)
    /\ actor' = "main"
    /\ UNCHANGED <<result, exitCode, trace, gotos, pageErrs>>
    /\ UNCHANGED <<browserVars, cookieVars, setupVars>>
    /\ UNCHANGED returned

\* first read of element elIdx: get_attribute("href") in ZaraScraper,
\* inner_text() in the other classes
FirstKey ==
    IF cls = "zara" THEN <<"href", elIdx>> ELSE <<"text", elIdx>>

FirstValues ==
    IF cls = "zara" THEN Hrefs ELSE Texts

\* second read: inner_text() in ZaraScraper, evaluate(tagName) in the others
SecondKey ==
    IF cls = "zara" THEN <<"text", elIdx>> ELSE <<"tag", elIdx>>

SecondValues ==
    IF cls = "zara" THEN Texts ELSE Tags

\* variant: a read that raises is caught by the outer handler of the step
extract_element_fails_on_raise ==
    /\ pc \in {"el_a", "el_b"}
    /\ \E o \in Outcome(IF pc = "el_a" THEN FirstKey ELSE SecondKey,
                         {Raise} \cup {Some(v) : v \in IF pc = "el_a" THEN FirstValues
                                                                     ELSE SecondValues}) :
        /\ Note(IF pc = "el_a" THEN FirstKey ELSE SecondKey, o)
        /\ IF o = Raise
           THEN /\ rec' = AppendError(rec, cls, "extract")
                /\ items' = <<>>
                /\ pc' = "report"
                /\ active' = <<>>
                /\ UNCHANGED <<nElems, elIdx, elFirst>>
           ELSE IF pc = "el_a"
                THEN /\ elFirst' = o
                     /\ pc' = "el_b"
                     /\ UNCHANGED <<rec, active, nElems, elIdx, items>>
                ELSE LET href == IF cls = "zara" THEN elFirst[1] ELSE None
                         text == IF cls = "zara" THEN o[1] ELSE elFirst[1]
                         tag  == IF cls = "zara" THEN "a" ELSE o[1]
                     IN  IF Keeps(cls, href, text)
                         THEN NextElem(Append(items, Item(cls, href, text, tag, elIdx)))
                         ELSE NextElem(items)
    /\ actor' = "main"
    /\ UNCHANGED <<result, exitCode, trace, gotos, failed, pageErrs>>
    /\ UNCHANGED <<browserVars, cookieVars, setupVars>>
    /\ UNCHANGED returned

\* one awaited read inside the loop.  A raise is caught inside the loop,
\* logged at debug level and the element skipped.
extract_element ==
    /\ pc \in {"el_a", "el_b"}
    /\ IF pc = "el_a"
       THEN \E o \in Outcome(FirstKey, {Raise} \cup {Some(v) : v \in FirstValues}) :
              /\ Note(FirstKey, o)
              /\ IF o = Raise
                 THEN NextElem(items)
                 ELSE /\ elFirst' = o
                      /\ pc' = "el_b"
                      /\ UNCHANGED <<rec, active, nElems, elIdx, items>>
       ELSE \E o \in Outcome(SecondKey, {Raise} \cup {Some(v) : v \in SecondValues}) :
              /\ Note(SecondKey, o)
              /\ IF o = Raise
                 THEN NextElem(items)
                 ELSE LET href == IF cls = "zara" THEN elFirst[1] ELSE None
                          text == IF cls = "zara" THEN o[1] ELSE elFirst[1]
                          tag  == IF cls = "zara" THEN "a" ELSE o[1]
                      IN  IF Keeps(cls, href, text)
                          THEN NextElem(Append(items, Item(cls, href, text, tag, elIdx)))
                          ELSE NextElem(items)
    /\ actor' = "main"
    /\ UNCHANGED <<result, exitCode, trace, gotos, failed, pageErrs>>
    /\ UNCHANGED <<browserVars, cookieVars, setupVars>>
    /\ UNCHANGED returned

\* ------------------------------------------------------- run_scrape, the end
\* the extraction step has returned: success is set, the items are stored,
\* _display_results prints the report and run_scrape returns the record
report ==
    /\ pc = "report"
    /\ LeaveRun(Put([rec EXCEPT !.success = TRUE], ItemsKey(cls), items))
    /\ trace' = Append(trace, "report")
    /\ actor' = "main"
    /\ UNCHANGED <<exitCode, gotos, failed, oracle, pageErrs>>
    /\ UNCHANGED <<browserVars, cookieVars, extractVars, setupVars>>
    /\ UNCHANGED returned

\* ------------------------------------------------------------------ cleanup
\* DemoScraper / TestScraper __aexit__: context.close(), then browser.stop(),
\* both inside one try block; after it main() returns the record
cleanup ==
    /\ pc \in {"ctx_close", "pw_stop"}
    /\ \E o \in Outcome(<<pc, 0>>, {Raise, Ok}) :
        /\ Note(<<pc, 0>>, o)
        /\ IF pc = "ctx_close"
           THEN /\ ctx' = IF o = Ok THEN "closed" ELSE ctx
                /\ pw' = pw
                /\ IF o = Ok
                   THEN /\ pc' = "pw_stop"
                        /\ result' = result
                   ELSE /\ pc' = "main_ret"
                        /\ result' = Some(rec)
           ELSE /\ pw' = IF o = Ok THEN "stopped" ELSE pw
                /\ ctx' = ctx
                /\ pc' = "main_ret"
                /\ result' = Some(rec)
    /\ actor' = "main"
    /\ UNCHANGED <<rec, handlers, exitCode, trace, active, gotos, failed, pageErrs>>
    /\ UNCHANGED <<cookieVars, extractVars, setupVars>>
    /\ UNCHANGED returned

\* ------------------------------------------------------- _handle_page_error
\* positions at which the main task is suspended in a call on the page
PageAwaitPcs ==
    {"goto", "wait_dom", "ck_sleep", "ck_count", "ck_click", "title",
     "content", "screenshot", "wait_idle", "match", "el_a", "el_b",
     "ctx_close"}

\* variant: the callback also clears the saved HTML path
handle_page_error_clears_path ==
    /\ handlers
    /\ ctx = "open"
    /\ pc \in PageAwaitPcs
    /\ pageErrs < MaxPageErrors
    /\ pageErrs' = pageErrs + 1
    /\ rec' = [AppendError(rec, cls, "page") EXCEPT !.html_file = None]
    /\ actor' = "callback"
    /\ UNCHANGED <<pc, result, exitCode, trace, active, gotos, failed, oracle>>
    /\ UNCHANGED <<browserVars, cookieVars, extractVars, setupVars>>
    /\ UNCHANGED returned

\* the page emits "pageerror" while the main task awaits: the registered
\* coroutine runs as a task of its own and appends to the error list
handle_page_error ==
    /\ handlers
    /\ ctx = "open"
    /\ pc \in PageAwaitPcs
    /\ pageErrs < MaxPageErrors
    /\ pageErrs' = pageErrs + 1
    /\ rec' = AppendError(rec, cls, "page")
    /\ actor' = "callback"
    /\ UNCHANGED <<pc, result, exitCode, trace, active, gotos, failed, oracle>>
    /\ UNCHANGED <<browserVars, cookieVars, extractVars, setupVars>>
    /\ UNCHANGED returned

\* --------------------------------------------------- _handle_request_failed
\* variant: the callback appends its message to the error list
handle_request_failed_records ==
    /\ handlers
    /\ ctx = "open"
    /\ pc \in PageAwaitPcs
    /\ rec' = [rec EXCEPT !.errors = Append(@, "Request failed")]
    /\ actor' = "request"
    /\ UNCHANGED <<pc, result, exitCode, trace, active, gotos, failed, oracle,
                   pageErrs>>
    /\ UNCHANGED <<browserVars, cookieVars, extractVars, setupVars>>
    /\ UNCHANGED returned

\* the page emits "requestfailed" while the main task awaits: the registered
\* coroutine builds a message and logs it as a warning
handle_request_failed ==
    /\ handlers
    /\ ctx = "open"
    /\ pc \in PageAwaitPcs
    /\ actor' = "request"
    /\ UNCHANGED <<pc, rec, result, exitCode, trace, active, gotos, failed,
                   oracle, pageErrs>>
    /\ UNCHANGED <<browserVars, cookieVars, extractVars, setupVars>>
    /\ UNCHANGED returned

\* ------------------------------------------------------------- entry point
\* the script receives main()'s record and exits
exit_process ==
    /\ pc = "main_ret"
    /\ pc' = "exited"
    /\ exitCode' = Some(exit_status(result[1]))
    /\ actor' = "main"
    /\ UNCHANGED <<rec, result, trace, active, gotos, failed, oracle, pageErrs>>
    /\ UNCHANGED <<browserVars, cookieVars, extractVars, setupVars>>
    /\ UNCHANGED returned

\* ------------------------------------------------ runs compared across classes
\* The comparison specification runs the three classes one after the other
\* against the same browser: the outcome of every call the classes share is
\* recorded at its first use and replayed afterwards.  No page-error event is
\* delivered in these runs.
ClassOrder ==
    <<"zara", "demo", "test">>

NextClass(c) ==
    CASE c = "zara" -> "demo"
      [] c = "demo" -> "test"

\* what a finished run is compared on
Summary ==
    [record |-> result[1], steps |-> trace, exit |-> exitCode[1]]

InitEq ==
    /\ cli = "module"
    /\ InitRun(ClassOrder[1])
    /\ timestamp = 1
    /\ replay = TRUE
    /\ oracle = [k \in SharedCalls |-> None]
    /\ done = [c \in Classes |-> None]

\* the process of one class has exited: its summary is kept and the next
\* class is constructed
next_run ==
    /\ pc = "exited"
    /\ done[cls] = None
    /\ done' = [done EXCEPT ![cls] = Some(Summary)]
    /\ IF cls = "test"
       THEN /\ pc' = "compared"
            /\ UNCHANGED <<cls, rec, result, exitCode, trace, active, gotos,
                           failed, pageErrs>>
            /\ UNCHANGED <<browserVars, cookieVars, extractVars, returned>>
       ELSE /\ cls' = NextClass(cls)
            /\ pc' = "init"
            /\ rec' = InitRecord(NextClass(cls), timestamp)
            /\ result' = None
            /\ exitCode' = None
            /\ pw' = "none"
            /\ ctx' = "none"
            /\ handlers' = FALSE
            /\ CookieReset
            /\ nElems' = 0
            /\ elIdx' = 0
            /\ elFirst' = None
            /\ items' = <<>>
            /\ trace' = <<>>
            /\ active' = <<>>
            /\ gotos' = <<>>
            /\ failed' = {}
            /\ pageErrs' = 0
            /\ returned' = NoReturns
    /\ actor' = "main"
    /\ UNCHANGED <<cli, timestamp, replay, oracle>>

\* ------------------------------------- extract_hero_banners on a given page
\* The extraction step of ZaraScraper run from the state in which run_scrape
\* calls it, against a page fixed in advance: the number of matched elements
\* and what get_attribute("href") and inner_text() do for each of them.
BannerKeys ==
    {<<"match", 0>>} \cup ({"href", "text"} \X (0..(MaxBanners + ExtraElems - 1)))

\* numbers of matched elements around the limit of the loop
BannerCounts ==
    {0, 1, MaxBanners - 1} \cup (MaxBanners..(MaxBanners + ExtraElems))

\* what may be wrong with an element
BadKinds ==
    {"href_raises", "href_none", "href_empty", "text_raises", "text_blank"}

\* the sets of elements that are bad on a page: none, one, every second
BadSets(n) ==
    {{}} \cup {{j} : j \in 0..(n - 1)} \cup {{j \in 0..(n - 1) : j % 2 = 0}}

\* the page with n matched elements of which those in bad are bad in one way
BannerPage(n, bad, kind) ==
    [k \in BannerKeys |->
        CASE k[1] = "match" -> Some(Some(n))
          [] k[1] = "href" ->
                IF k[2] \notin bad THEN Some(Some(Some(<<"/", "s">>)))
                ELSE CASE kind = "href_raises" -> Some(Raise)
                       [] kind = "href_none"   -> Some(Some(None))
                       [] kind = "href_empty"  -> Some(Some(Some(<<>>)))
                       [] OTHER                -> Some(Some(Some(<<"/", "s">>)))
          [] k[1] = "text" ->
                IF k[2] \notin bad THEN Some(Some(<<" ", "S", " ">>))
                ELSE CASE kind = "text_raises" -> Some(Raise)
                       [] kind = "text_blank"  -> Some(Some(<<" ", " ">>))
                       [] OTHER                -> Some(Some(<<" ", "S", " ">>))]

\* run_scrape is about to call extract_hero_banners: the browser is started,
\* navigation succeeded and both files were saved
InitBanners ==
    /\ cli = "module"
    /\ cls = "zara"
    /\ pc = "wait_idle"
    /\ timestamp = 1
    /\ rec = [InitRecord("zara", 1) EXCEPT
                 !.html_file = Some(HtmlPath("zara", 1)),
                 !.screenshot_file = Some(ScreenshotPath("zara", 1))]
    /\ result = None
    /\ exitCode = None
    /\ pw = "started"
    /\ ctx = "open"
    /\ handlers = TRUE
    /\ selIdx = 0
    /\ found = {}
    /\ clicked = None
    /\ roleTried = FALSE
    /\ popupRet = None
    /\ sleeps = 0
    /\ nElems = 0
    /\ elIdx = 0
    /\ elFirst = None
    /\ items = <<>>
    /\ trace = <<"launch", "navigate", "popup", "save_html", "save_screenshot",
                 "extract">>
    /\ active = <<"extract">>
    /\ gotos = <<ZARA_HOME_URL>>
    /\ failed = {}
    /\ actor = "main"
    /\ pageErrs = 0
    /\ returned = [title |-> Some(<<"Z", "A", "R", "A">>),
                   navigate |-> Some(TRUE),
                   save_html |-> Some(Some(HtmlPath("zara", 1))),
                   save_screenshot |-> Some(Some(ScreenshotPath("zara", 1)))]
    /\ replay = TRUE
    /\ \E n \in BannerCounts : \E bad \in BadSets(n) : \E kind \in BadKinds :
           oracle = BannerPage(n, bad, kind)
    /\ done = [c \in Classes |-> None]

NextBanners ==
    \/ extract_begin
    \/ extract_element
    \/ report
    \/ exit_process

SpecBanners ==
    InitBanners /\ [][NextBanners]_vars

\* ------------------------------------ the extraction step with reads recorded
\* The extraction step of each class run from the state in which run_scrape
\* calls it, on a page with a given number of matched elements; what
\* wait_for_load_state and each read of an element did is recorded.
ReadElems ==
    MaxElems + 1

ReadKeys ==
    {<<"wait_idle", 0>>, <<"match", 0>>}
        \cup ({"href", "text", "tag"} \X (0..(ReadElems - 1)))

\* scrape_data when run_scrape calls the extraction step after a navigation
\* and two saves that succeeded
RecordBeforeExtract(c) ==
    IF c = "zara"
    THEN [InitRecord(c, 1) EXCEPT
            !.html_file = Some(HtmlPath(c, 1)),
            !.screenshot_file = Some(ScreenshotPath(c, 1))]
    ELSE [InitRecord(c, 1) EXCEPT
            !.html_file = Some(HtmlPath(c, 1)),
            !.screenshot_file = Some(ScreenshotPath(c, 1)),
            !.title = Some(<<"H", "M">>)]

InitElems ==
    /\ cli = "module"
    /\ cls \in Classes
    /\ pc = "wait_idle"
    /\ timestamp = 1
    /\ rec = RecordBeforeExtract(cls)
    /\ result = None
    /\ exitCode = None
    /\ pw = "started"
    /\ ctx = "open"
    /\ handlers = TRUE
    /\ selIdx = 0
    /\ found = {}
    /\ clicked = None
    /\ roleTried = FALSE
    /\ popupRet = None
    /\ sleeps = 0
    /\ nElems = 0
    /\ elIdx = 0
    /\ elFirst = None
    /\ items = <<>>
    /\ trace = IF cls = "zara"
               THEN <<"launch", "navigate", "popup", "save_html",
                      "save_screenshot", "extract">>
               ELSE <<"launch", "navigate", "save_html", "save_screenshot",
                      "extract">>
    /\ active = <<"extract">>
    /\ gotos = <<UrlOf(cls)>>
    /\ failed = {}
    /\ actor = "main"
    /\ pageErrs = 0
    /\ returned = [title |-> Some(IF cls = "zara" THEN <<"Z", "A", "R", "A">>
                                                  ELSE <<"H", "M">>),
                   navigate |-> Some(TRUE),
                   save_html |-> Some(Some(HtmlPath(cls, 1))),
                   save_screenshot |-> Some(Some(ScreenshotPath(cls, 1)))]
    /\ replay = TRUE
    /\ \E n \in 0..ReadElems :
           oracle = [k \in ReadKeys |->
                        IF k[1] = "match" THEN Some(Some(n)) ELSE None]
    /\ done = [c \in Classes |-> None]

NextElems ==
    \/ extract_begin
    \/ extract_element
    \/ report
    \/ cleanup
    \/ exit_process

SpecElems ==
    InitElems /\ [][NextElems]_vars

\* ------------------------------------------- run_scrape, the outer handler
\* The runs in which an exception reaches the handler around the body of
\* run_scrape.  The body has two console.print calls of its own, the start
\* panel before the navigation step is called and the final panel after
\* _display_results; and every step prints in its own handler before it
\* appends its error, so when a call of the step raised and that print raises
\* too, the exception leaves the step.
\* the positions of the main task from which the next thing it does can be to
\* enter the handler of run_scrape
EscapePcs ==
    {"new_page", "goto", "wait_dom", "title", "content", "screenshot",
     "wait_idle", "match", "report"}

\* the step whose handler the main task is in when the call awaited at p raises
StepKind(p) ==
    CASE p \in {"goto", "wait_dom", "title"} -> "nav"
      [] p = "content"                       -> "html"
      [] p = "screenshot"                    -> "shot"
      [] p \in {"wait_idle", "match"}        -> "extract"

\* the ways the call awaited at p fails: save_html also fails in the file
\* write after page.content() returned
StepFailures(p) ==
    IF p = "content" THEN {Raise, Some("write_raises")} ELSE {Raise}

\* scrape_data when the exception is raised: at "report" the extraction step
\* has returned and run_scrape has set success and stored the list
RecordAtRaise ==
    IF pc = "report"
    THEN Put([rec EXCEPT !.success = TRUE], ItemsKey(cls), items)
    ELSE rec

\* what happened before the handler of run_scrape was entered
\*   "new_page": new_page() returned, start_browser registered the callbacks
\*               and returned, run_scrape was called and its start panel
\*               raised: no step was called
\*   "report":   _display_results was called and returned, the final panel
\*               raised
\*   otherwise:  the awaited call of the step raised, and console.print in the
\*               handler of the step raised before the error was appended
Escapes ==
    /\ CASE pc = "new_page" ->
              /\ Ok \in Outcome(<<pc, 0>>, {Raise, Ok})
              /\ Note(<<pc, 0>>, Ok)
              /\ handlers' = TRUE
              /\ failed' = failed \cup {"escaped"}
         [] pc = "report" ->
              /\ oracle' = oracle
              /\ handlers' = handlers
              /\ failed' = failed \cup {"escaped"}
         [] OTHER ->
              /\ \E o \in Outcome(<<pc, 0>>, StepFailures(pc)) :
                     /\ o \in StepFailures(pc)
                     /\ Note(<<pc, 0>>, o)
              /\ handlers' = handlers
              /\ failed' = failed \cup {StepKind(pc), "escaped"}
    /\ trace' = IF pc = "report" THEN Append(trace, "report") ELSE trace
    /\ gotos' = IF pc = "goto" THEN Append(gotos, UrlOf(cls)) ELSE gotos
    /\ IF pc = "title" THEN CookieReset ELSE UNCHANGED cookieVars
    /\ actor' = "main"
    /\ UNCHANGED <<pw, ctx, exitCode, pageErrs, returned>>
    /\ UNCHANGED <<extractVars, setupVars>>

\* variant: the handler appends the error and leaves the success flag alone
run_scrape_except_keeps_success ==
    /\ pc \in EscapePcs
    /\ Escapes
    /\ LeaveRun(AppendError(RecordAtRaise, cls, "scrape"))

\* "except Exception" of run_scrape: the handler appends "Scraping failed: ..."
\* ("Demo scraping failed", "Test scraping failed"), sets success False and
\* returns the record
run_scrape_except ==
    /\ pc \in EscapePcs
    /\ Escapes
    /\ LeaveRun([AppendError(RecordAtRaise, cls, "scrape") EXCEPT !.success = FALSE])

NextEscape ==
    \/ aenter
    \/ start_browser
    \/ navigate
    \/ cookie_sleep
    \/ cookie_scan
    \/ save_html
    \/ save_screenshot
    \/ extract_begin
    \/ extract_element
    \/ report
    \/ run_scrape_except
    \/ cleanup
    \/ handle_page_error
    \/ handle_request_failed
    \/ exit_process

SpecEscape ==
    Init /\ [][NextEscape]_vars

\* a step of the main task
MainStep ==
    \/ aenter
    \/ start_browser
    \/ navigate
    \/ cookie_sleep
    \/ cookie_scan
    \/ save_html
    \/ save_screenshot
    \/ extract_begin
    \/ extract_element
    \/ report
    \/ cleanup
    \/ exit_process

Next ==
    \/ aenter
    \/ start_browser
    \/ navigate
    \/ cookie_sleep
    \/ cookie_scan
    \/ save_html
    \/ save_screenshot
    \/ extract_begin
    \/ extract_element
    \/ report
    \/ cleanup
    \/ handle_page_error
    \/ handle_request_failed
    \/ exit_process

Spec ==
    Init /\ [][Next]_vars

NextEq ==
    \/ aenter
    \/ start_browser
    \/ navigate
    \/ cookie_sleep
    \/ cookie_scan
    \/ save_html
    \/ save_screenshot
    \/ extract_begin
    \/ extract_element
    \/ report
    \/ cleanup
    \/ exit_process
    \/ next_run

SpecEq ==
    InitEq /\ [][NextEq]_vars


\* ===================================================================== claims
IsPrefix(s, t) ==
    /\ Len(s) <= Len(t)
    /\ \A i \in 1..Len(s) : s[i] = t[i]

Count(s, x) ==
    Cardinality({i \in 1..Len(s) : s[i] = x})

NotPopup(x) ==
    x # "popup"

WithoutPopup(s) ==
    SelectSeq(s, NotPopup)

\* the step sequence the specification gives for every class
Pipeline ==
    <<"launch", "navigate", "popup", "save_html", "save_screenshot",
      "extract", "report">>

\* the step sequence of each class
PipelineOf(c) ==
    IF c = "zara" THEN Pipeline ELSE WithoutPopup(Pipeline)

\* run_scrape has returned
PostRunPcs ==
    {"ctx_close", "pw_stop", "main_ret", "exited", "compared"}

\* the error list of the record main() returned
ResultErrors ==
    Get(result[1], "errors", <<>>)

\* C1 as stated: in every run of each of the three classes the steps are
\* launch, navigate, popup, save HTML, save screenshot, extract, report, in
\* this order, each starting only after the previous one has finished.
C1_Original ==
    /\ IsPrefix(trace, Pipeline)
    /\ Len(active) <= 1
    /\ rec.success => trace = Pipeline

\* C1 amended: the steps run in the order launch, navigate, save HTML, save
\* screenshot, extract, report, each starting after the previous one has
\* finished; DemoScraper and TestScraper have no popup step, and in
\* ZaraScraper the popup step runs inside the navigation step, after the page
\* has loaded and before the title is read.  A successful run has run every
\* step of its class.
C1_StepOrder ==
    /\ IsPrefix(trace, PipelineOf(cls))
    /\ \/ Len(active) <= 1
       \/ cls = "zara" /\ active = <<"navigate", "popup">>
                       /\ Len(gotos) = 1 /\ pc \notin NavPcs
    /\ \A i \in 1..Len(active) : Count(trace, active[i]) = 1
    /\ rec.success => trace = PipelineOf(cls)

C1_Witness ==
    /\ cls = "zara"
    /\ pc = "exited"
    /\ trace = Pipeline
    /\ rec.success

\* C2: the exit status of every entry point is 0 exactly when the record
\* main() returned has success true, and 1 otherwise, the failure record of
\* main() included.
C2_ExitStatus ==
    exitCode # None =>
        /\ exitCode[1] \in {0, 1}
        /\ exitCode[1] = 0 <=> ("success" \in DOMAIN result[1] /\ result[1].success)
        /\ "error" \in DOMAIN result[1] => exitCode[1] = 1
        /\ exitCode[1] = 0 => trace = PipelineOf(cls)

C2_Witness ==
    /\ cli = "run_scraper"
    /\ exitCode = Some(0)
    /\ result[1].success

\* C3 as stated: whenever a pipeline operation fails (browser start,
\* navigation, cookie popup, HTML save, screenshot save, extraction), a string
\* describing the failure is in the error list of the record returned to the
\* caller.
C3_FailureRecorded ==
    result # None =>
        \A k \in failed :
            \E i \in 1..Len(ResultErrors) : ResultErrors[i] = ErrMsg(cls, k)

\* C4 as stated: every record main() returns has the fields timestamp, url,
\* success, html_file, screenshot_file, the extracted items and the error
\* list.
C4_FieldsPresent ==
    result # None =>
        {"timestamp", "url", "success", "html_file", "screenshot_file",
         ItemsKey(cls), "errors"} \subseteq DOMAIN result[1]

\* C5: nothing is retried.  Each of launch, navigation, HTML save, screenshot
\* save and extraction is attempted at most once in a run although
\* max_retries is 3; page.goto is called at most once, with the URL of the
\* class and no other entry of ZARA_URLS; a failed navigation ends the run.
C5_NoRetry ==
    /\ \A s \in {"launch", "navigate", "save_html", "save_screenshot", "extract"} :
           Count(trace, s) <= 1
    /\ max_retries > 1
    /\ Len(gotos) <= 1
    /\ \A i \in 1..Len(gotos) : gotos[i] = UrlOf(cls)
    /\ "nav" \in failed => pc \in PostRunPcs /\ ~rec.success

C5_Witness ==
    /\ pc = "exited"
    /\ "nav" \in failed
    /\ gotos = <<ZARA_HOME_URL>>
    /\ Len(ZARA_URLS) > 1

\* C6 as stated: the first selector, in list order, whose element exists is
\* clicked, and no later selector is examined or clicked once an existing one
\* has been found.
C6_Original ==
    /\ \A i \in found : selIdx <= i
    /\ clicked # None => \A i \in found : clicked[1] <= i

\* C6 amended: the selectors are examined in list order and a click is
\* attempted on each one whose element exists until a click succeeds (a count
\* or click that raises makes the scan go on with the next selector); after a
\* successful click no later selector is examined or clicked.
C6_FirstClickable ==
    /\ selIdx \in 0..NumSelectors
    /\ found \subseteq 1..selIdx
    /\ pc = "ck_click" => selIdx \in found
    /\ pc = "ck_count" => selIdx \notin found
    /\ clicked # None =>
           /\ clicked[1] = selIdx
           /\ selIdx \in found
           /\ pc = "title"
           /\ popupRet = Some(TRUE)
           /\ ~roleTried

C6_Witness ==
    /\ found = {1, 2}
    /\ clicked = Some(2)
    /\ pc = "title"

\* C7: the routine sleeps exactly once, and when no selector of the list
\* yields a click that returns, it makes no click attempt by another
\* strategy (every click attempt is the click of a selector of the list whose
\* element exists) and returns False.
C7_NoFurtherClick ==
    /\ sleeps <= 1
    /\ (selIdx > 0 \/ popupRet # None) => sleeps = 1
    /\ \A i \in 1..Len(clicked) : clicked[i] \in found
    /\ pc \in {"ck_sleep", "ck_count", "ck_click"} => popupRet = None
    /\ (popupRet # None /\ clicked = <<>>) => popupRet = Some(FALSE)
    /\ roleTried =>
           /\ selIdx = NumSelectors
           /\ clicked = <<>>
           /\ popupRet = Some(FALSE)
           /\ pc = "title"
    /\ (pc = "title" /\ cls = "zara") => popupRet # None

C7_Witness ==
    /\ pc = "title"
    /\ sleeps = 1
    /\ roleTried
    /\ found = {NumSelectors}
    /\ clicked = <<>>
    /\ popupRet = Some(FALSE)

\* C8 as stated: the record is changed only by the main task while
\* run_scrape is running; no callback changes it, and nothing changes it
\* after run_scrape has returned.
C8_Original ==
    [][rec' # rec => (actor' = "main" /\ pc \notin PostRunPcs)]_vars

\* C8 amended: the record is changed only by the main task while run_scrape
\* is running, or by the page-error callback, which runs as a task of its own
\* while the main task awaits the browser (also in cleanup, after run_scrape
\* has returned) and only appends one string to the error list.
C8_OnlyStepOrCallback ==
    [][rec' # rec =>
         \/ actor' = "main" /\ pc \notin PostRunPcs
         \/ /\ actor' = "callback"
            /\ pc \in PageAwaitPcs
            /\ pc' = pc
            /\ rec' = [rec EXCEPT !.errors = Append(@, "Page error")]]_vars

C8_Witness ==
    /\ actor = "callback"
    /\ pc = "ctx_close"
    /\ rec.errors # <<>>
    /\ rec.errors[Len(rec.errors)] = "Page error"

\* summaries of the compared runs
Steps(c) ==
    done[c][1].steps

Succ(c) ==
    Get(done[c][1].record, "success", FALSE)

NErr(c) ==
    Len(Get(done[c][1].record, "errors", <<>>))

\* the shared page title was read and does not contain "zara"
TitleRejected ==
    /\ oracle[<<"title", 0>>] # None
    /\ oracle[<<"title", 0>>][1] # Raise
    /\ ~TitleIsZara(oracle[<<"title", 0>>][1][1])

\* C9 as stated: for the same browser outcomes the three classes execute the
\* same steps in the same order and return the same success flag and the same
\* number of errors.
C9_Original ==
    \A c1, c2 \in Classes :
        (done[c1] # None /\ done[c2] # None) =>
            /\ Steps(c1) = Steps(c2)
            /\ Succ(c1) = Succ(c2)
            /\ NErr(c1) = NErr(c2)

\* C9 amended: DemoScraper and TestScraper execute the same steps in the same
\* order and return the same success flag and number of errors.  ZaraScraper
\* executes the same steps plus the popup step and returns the same success
\* flag and number of errors, unless the page title lacks "zara": then it
\* stops after navigation with success false and no error while the other
\* two run to the end with success true.
C9_SameUpToPopupAndTitle ==
    /\ (done["demo"] # None /\ done["test"] # None) =>
           /\ Steps("demo") = Steps("test")
           /\ Succ("demo") = Succ("test")
           /\ NErr("demo") = NErr("test")
    /\ \A d \in {"demo", "test"} :
           (done["zara"] # None /\ done[d] # None) =>
               IF TitleRejected
               THEN /\ Steps("zara") = <<"launch", "navigate", "popup">>
                    /\ ~Succ("zara")
                    /\ NErr("zara") = 0
                    /\ Succ(d)
                    /\ Steps(d) = PipelineOf(d)
               ELSE /\ WithoutPopup(Steps("zara")) = Steps(d)
                    /\ Succ("zara") = Succ(d)
                    /\ NErr("zara") = NErr(d)

C9_Witness ==
    /\ pc = "compared"
    /\ Succ("zara") /\ Succ("demo") /\ Succ("test")
    /\ NErr("zara") = 2 /\ NErr("test") = 2
    /\ Steps("zara") = Pipeline

\* C10 as stated: whenever the browser was started successfully, the context
\* is closed and the Playwright instance stopped before main() returns.
C10_Released ==
    (result # None /\ handlers) => (ctx = "closed" /\ pw = "stopped")

\* the html and screenshots directories and the file name prefix of each class
C11_HtmlDir(c) ==
    CASE c = "zara" -> <<"data/scrapes", "html", "zara_homepage_">>
      [] c = "demo" -> <<"data/demo_scrapes", "html", "demo_page_">>
      [] c = "test" -> <<"data/test_scrapes", "html", "test_page_">>

C11_ShotDir(c) ==
    CASE c = "zara" -> <<"data/scrapes", "screenshots", "zara_homepage_">>
      [] c = "demo" -> <<"data/demo_scrapes", "screenshots", "demo_page_">>
      [] c = "test" -> <<"data/test_scrapes", "screenshots", "test_page_">>

C11_Names ==
    /\ rec.html_file # None =>
           rec.html_file[1] = C11_HtmlDir(cls) \o <<rec.timestamp, ".html">>
    /\ rec.screenshot_file # None =>
           rec.screenshot_file[1] = C11_ShotDir(cls) \o <<rec.timestamp, ".png">>

\* C11: the HTML path and the screenshot path a scraper records both carry
\* the timestamp of the record's timestamp field and lie under the html and
\* screenshots directories of that scraper, and no step changes the timestamp
\* field.
C11_TimestampNames ==
    [](C11_Names) /\ [][rec'.timestamp = rec.timestamp]_vars

C11_Witness ==
    /\ pc = "exited"
    /\ rec.html_file # None
    /\ rec.screenshot_file # None
    /\ rec.html_file[1][4] = rec.screenshot_file[1][4]
    /\ rec.errors # <<>>

\* the steps after navigation that may fail
C12_LaterSteps ==
    {"html", "shot", "extract"}

\* C12: when navigation succeeded, a failure of save_html, save_screenshot or
\* the extraction step is recorded in the error list, every step of the
\* pipeline is still started, and the run ends with success true.
C12_ContinuesAfterNavigation ==
    (pc \in PostRunPcs /\ returned["navigate"] = Some(TRUE)) =>
        /\ trace = PipelineOf(cls)
        /\ rec.success
        /\ \A k \in C12_LaterSteps \cap failed :
               Count(rec.errors, ErrMsg(cls, k)) = 1
        /\ result # None =>
               /\ result[1].success
               /\ \A k \in C12_LaterSteps \cap failed :
                      Count(result[1].errors, ErrMsg(cls, k)) = 1

C12_Witness ==
    /\ pc = "exited"
    /\ C12_LaterSteps \subseteq failed
    /\ returned["navigate"] = Some(TRUE)
    /\ result[1].success
    /\ trace = PipelineOf(cls)

\* the steps run_scrape calls after the navigation step
C13_AfterNavigation ==
    {"save_html", "save_screenshot", "extract", "report"}

\* C13: when the navigation step returned False, none of save HTML, save
\* screenshot, extract and report is executed, run_scrape returns at once, and
\* the record has success false and null HTML and screenshot paths.
C13_FailedNavigationAborts ==
    returned["navigate"] = Some(FALSE) =>
        /\ pc \in PostRunPcs
        /\ \A s \in C13_AfterNavigation : Count(trace, s) = 0
        /\ returned["save_html"] = None /\ returned["save_screenshot"] = None
        /\ ~rec.success
        /\ rec.html_file = None
        /\ rec.screenshot_file = None
        /\ result # None =>
               /\ result[1].success = FALSE
               /\ result[1].html_file = None
               /\ result[1].screenshot_file = None

C13_Witness ==
    /\ pc = "exited"
    /\ returned["navigate"] = Some(FALSE)
    /\ "nav" \in failed
    /\ result[1].success = FALSE
    /\ exitCode = Some(1)

\* one call of a save step: on success the path is returned and stored and
\* the error list is left alone; on failure None is returned, the field is
\* left unchanged and one error is appended
C14_SaveCall(step, field, kind, path) ==
    /\ returned'[step] # None
    /\ IF kind \in failed'
       THEN /\ returned'[step] = Some(None)
            /\ rec'[field] = rec[field]
            /\ rec'[field] = None
            /\ rec'.errors = Append(rec.errors, ErrMsg(cls, kind))
       ELSE /\ returned'[step] = Some(Some(path))
            /\ rec'[field] = Some(path)
            /\ rec'.errors = rec.errors

\* C14: save_html and save_screenshot return the path of the saved file when
\* no call raised and None otherwise; the html_file (screenshot_file) field is
\* set to that path in the first case, and in the second it is left unchanged
\* (null) and exactly one error is appended to the error list.
C14_SaveReturnsPathOrNone ==
    [][/\ (pc = "content" /\ pc' # "content") =>
              C14_SaveCall("save_html", "html_file", "html",
                           C11_HtmlDir(cls) \o <<timestamp, ".html">>)
       /\ (pc = "screenshot" /\ pc' # "screenshot") =>
              C14_SaveCall("save_screenshot", "screenshot_file", "shot",
                           C11_ShotDir(cls) \o <<timestamp, ".png">>)
       /\ (rec'.html_file # rec.html_file /\ pc' # "init") => pc = "content"
       /\ (rec'.screenshot_file # rec.screenshot_file /\ pc' # "init") =>
              pc = "screenshot"]_vars

C14_Witness ==
    /\ pc = "wait_idle"
    /\ returned["save_html"] = Some(None)
    /\ returned["save_screenshot"] = Some(rec.screenshot_file)
    /\ rec.html_file = None
    /\ rec.screenshot_file # None
    /\ Count(rec.errors, "Failed to save HTML") = 1


\* C15: run_scrape and main() always return: whatever the calls did, also
\* when an exception left a step and reached the handler of run_scrape, the
\* main task can take its next step until the process exits, main() returns
\* a record whose success field is a boolean, and that field is false when
\* an exception left a step inside run_scrape or the browser could not be
\* started.
C15_AlwaysReturnsRecord ==
    /\ pc \notin {"exited", "compared"} => ENABLED MainStep
    /\ rec.success \in BOOLEAN
    /\ "escaped" \in failed =>
           /\ pc \in PostRunPcs
           /\ rec.success = FALSE
           /\ Count(rec.errors, CASE cls = "zara" -> "Scraping failed"
                                   [] cls = "demo" -> "Demo scraping failed"
                                   [] cls = "test" -> "Test scraping failed") = 1
    /\ pc \in {"main_ret", "exited"} =>
           /\ result # None
           /\ "success" \in DOMAIN result[1]
           /\ result[1].success \in BOOLEAN
           /\ ("start" \in failed \/ "escaped" \in failed) =>
                  result[1].success = FALSE

C15_Witness ==
    /\ pc = "exited"
    /\ "escaped" \in failed
    /\ trace = <<"launch", "navigate", "popup", "save_html", "save_screenshot",
                 "extract", "report">>
    /\ "banners" \in DOMAIN result[1]
    /\ result[1].errors = <<"Scraping failed">>
    /\ result[1].success = FALSE
    /\ exitCode = Some(1)

\* the awaits of handle_cookie_popup
C16_PopupPcs ==
    {"ck_sleep", "ck_count", "ck_click"}

\* C16: handle_cookie_popup returns True exactly when a click returned during
\* the call, False otherwise, and at most one click returns per call: the
\* first click that returns ends the call.
C16_TrueIffClicked ==
    /\ Len(clicked) <= 1
    /\ pc \in C16_PopupPcs => (popupRet = None /\ clicked = <<>>)
    /\ popupRet # None =>
           /\ popupRet[1] \in BOOLEAN
           /\ popupRet[1] <=> (Len(clicked) = 1)

C16_Witness ==
    /\ pc = "title"
    /\ popupRet = Some(TRUE)
    /\ Len(clicked) = 1
    /\ clicked[1] > 1
    /\ "cookie" \in failed

\* the titles of Titles that contain "zara" in some mix of cases
C17_ZaraTitles ==
    { <<"Z", "A", "R", "A">>, <<"a", "Z", "a", "r", "a", "!">> }

\* C17: ZaraScraper ends with success true only if the title read after the
\* popup step contains "zara" in some mix of cases, and such a title passes
\* the navigation step; with any other title the run ends after navigation
\* with success false, no HTML path, no screenshot path and no banners.
C17_SuccessOnlyWithZaraTitle ==
    cls = "zara" =>
        /\ rec.success =>
               /\ returned["title"] # None
               /\ returned["title"][1] \in C17_ZaraTitles
        /\ (returned["title"] # None /\ returned["title"][1] \in C17_ZaraTitles) =>
               returned["navigate"] = Some(TRUE)
        /\ (returned["title"] # None /\ returned["title"][1] \notin C17_ZaraTitles) =>
               /\ pc \in PostRunPcs
               /\ trace = <<"launch", "navigate", "popup">>
               /\ ~rec.success
               /\ rec.html_file = None
               /\ rec.screenshot_file = None
               /\ rec.banners_found = 0
               /\ "banners" \notin DOMAIN rec
               /\ result # None =>
                      /\ result[1].success = FALSE
                      /\ "banners" \notin DOMAIN result[1]

C17_Witness ==
    /\ cls = "zara"
    /\ pc = "exited"
    /\ returned["title"] = Some(<<"z", "a", "r">>)
    /\ popupRet = None
    /\ result[1].success = FALSE
    /\ result[1].html_file = None

\* C18 as stated: whenever run_scrape returns a record with success false,
\* the error list of that record is non-empty.
C18_FailedRunNamesError ==
    (result # None /\ returned["navigate"] # None /\ result[1].success = FALSE) =>
        result[1].errors # <<>>


\* a text made of blanks only
C19_Blank(t) ==
    \A i \in 1..Len(t) : t[i] = " "

\* the page gives element i a non-empty href and a text that is not blank
C19_Good(i) ==
    /\ oracle[<<"href", i>>][1] # Raise
    /\ oracle[<<"href", i>>][1][1] # None
    /\ oracle[<<"href", i>>][1][1][1] # <<>>
    /\ oracle[<<"text", i>>][1] # Raise
    /\ ~C19_Blank(oracle[<<"text", i>>][1][1])

\* the elements the page matched, if the match was made
C19_Matched ==
    oracle[<<"match", 0>>][1][1]

\* C19: extract_hero_banners reads only elements 0..19 of those matched and
\* returns at most 20 banners, each with a non-empty href and a non-empty
\* text without blanks around it, in page order: the banners returned are
\* exactly those of the first 20 matched elements that have an href and a
\* text that is not blank.
C19_FirstTwentyOnly ==
    /\ pc \in {"el_a", "el_b"} => elIdx < 20
    /\ Len(items) <= 20
    /\ \A k \in 1..Len(items) :
           /\ items[k].href # <<>>
           /\ items[k].text # <<>>
           /\ items[k].text[1] # " "
           /\ items[k].text[Len(items[k].text)] # " "
           /\ items[k].index \in 0..19
           /\ C19_Good(items[k].index)
    /\ \A k \in 1..(Len(items) - 1) : items[k].index < items[k + 1].index
    /\ (pc \in PostRunPcs /\ "extract" \notin failed) =>
           /\ {items[k].index : k \in 1..Len(items)} =
                  {i \in 0..(C19_Matched - 1) : i < 20 /\ C19_Good(i)}
           /\ result[1].banners = items
           /\ result[1].banners_found <= 20

C19_Witness ==
    /\ pc = "exited"
    /\ nElems > 20
    /\ Len(result[1].banners) = 20
    /\ ~C19_Good(20)

\* C20: in every record returned with success true the counter equals the
\* length of the extracted list, banners_found and banners in ZaraScraper,
\* headings_found and extracted_data in the other classes, also when the
\* extraction step failed.
C20_CountMatchesList ==
    (result # None /\ Get(result[1], "success", FALSE)) =>
        IF cls = "zara"
        THEN result[1].banners_found = Len(result[1].banners)
        ELSE result[1].headings_found = Len(result[1].extracted_data)

C20_Witness ==
    /\ pc = "exited"
    /\ result[1].success
    /\ cls = "demo"
    /\ result[1].headings_found = 1
    /\ Len(result[1].extracted_data) = 1
    /\ nElems = 2


\* the read name of element i was made and returned
C21_Returned(name, i) ==
    /\ oracle[<<name, i>>] # None
    /\ oracle[<<name, i>>][1] # Raise

\* the value the read name of element i returned
C21_Value(name, i) ==
    oracle[<<name, i>>][1][1]

\* both reads of element i returned and the element is not blank (in
\* ZaraScraper: it has an href too)
C21_Appears(i) ==
    IF cls = "zara"
    THEN /\ C21_Returned("href", i)
         /\ C21_Returned("text", i)
         /\ C21_Value("href", i) # None
         /\ C21_Value("href", i)[1] # <<>>
         /\ ~C19_Blank(C21_Value("text", i))
    ELSE /\ C21_Returned("text", i)
         /\ C21_Returned("tag", i)
         /\ ~C19_Blank(C21_Value("text", i))

\* the loop is past element i
C21_Past(i) ==
    IF pc \in {"el_a", "el_b"} THEN i < elIdx ELSE pc \notin {"wait_idle", "match"}

\* C21: a read of one element that raises skips that element only: when
\* wait_for_load_state and the match returned, the extraction step does not
\* fail and appends no error, and the list holds exactly the matched elements
\* whose reads returned and that are not blank.
C21_SkipsOnlyFailedElement ==
    oracle[<<"wait_idle", 0>>] = Some(Ok) =>
        /\ "extract" \notin failed
        /\ rec.errors = <<>>
        /\ {items[k].index : k \in 1..Len(items)} =
               {i \in 0..(nElems - 1) : C21_Past(i) /\ C21_Appears(i)}
        /\ \A k \in 1..(Len(items) - 1) : items[k].index < items[k + 1].index
        /\ pc \in PostRunPcs =>
               /\ rec.success
               /\ rec[IF cls = "zara" THEN "banners" ELSE "extracted_data"] = items

C21_Witness ==
    /\ pc = "exited"
    /\ cls = "demo"
    /\ nElems = 3
    /\ oracle[<<"tag", 1>>] = Some(Raise)
    /\ Len(result[1].extracted_data) = 2
    /\ result[1].extracted_data[2].index = 2
    /\ result[1].errors = <<>>


\* C22 as stated: when start_browser fails after the Playwright instance was
\* started, the instance and any context created are released before main()
\* returns.
C22_ReleasedAfterStartFailure ==
    (pc \in {"main_ret", "exited"} /\ "start" \in failed) =>
        (pw # "started" /\ ctx # "open")

\* C23 as stated: after cleanup of DemoScraper or TestScraper the Playwright
\* instance that was started is stopped (unless stop() itself raised), also
\* when closing the context raised.
C23_StoppedAfterCleanup ==
    (cls \in {"demo", "test"} /\ pc \in {"main_ret", "exited"}
        /\ "start" \notin failed) =>
        (pw = "stopped" \/ oracle[<<"pw_stop", 0>>] = Some(Raise))

\* C24: a request-failed event leaves the record, the returned record and the
\* position of the main task unchanged; a page-error event appends one
\* string to the error list and leaves every other field of the record, the
\* returned record and the position of the main task unchanged.
C24_EventsFrame ==
    [][/\ actor' = "request" =>
              /\ rec' = rec
              /\ result' = result
              /\ pc' = pc
              /\ exitCode' = exitCode
       /\ actor' = "callback" =>
              /\ rec' = [rec EXCEPT !.errors = Append(rec.errors, "Page error")]
              /\ result' = result
              /\ pc' = pc
              /\ exitCode' = exitCode]_vars

C24_Witness ==
    /\ actor = "request"
    /\ pageErrs = 1
    /\ rec.errors = <<"Page error">>
    /\ rec.html_file # None
    /\ pc = "screenshot"


\* a record without the fields that name the URL and the output files
C25_Shared(r) ==
    [k \in (DOMAIN r) \ {"url", "html_file", "screenshot_file"} |-> r[k]]

\* two file fields are both null, or both name a file of the same kind with
\* the same timestamp and extension
C25_SameFile(a, b) ==
    \/ a = None /\ b = None
    \/ /\ a # None
       /\ b # None
       /\ a[1][2] = b[1][2]
       /\ a[1][4] = b[1][4]
       /\ a[1][5] = b[1][5]

\* C25: for the same browser outcomes DemoScraper and TestScraper run the
\* same steps in the same order, exit with the same status and return
\* records with the same fields, equal in success flag, title, headings
\* count, extracted items and errors; the records differ only in the URL and
\* in the directory and the prefix of the file names.
C25_DemoTestIdentical ==
    (done["demo"] # None /\ done["test"] # None) =>
        LET d == done["demo"][1]
            t == done["test"][1]
        IN  /\ d.steps = t.steps
            /\ d.exit = t.exit
            /\ DOMAIN d.record = DOMAIN t.record
            /\ C25_Shared(d.record) = C25_Shared(t.record)
            /\ Len(Get(d.record, "errors", <<>>)) = Len(Get(t.record, "errors", <<>>))
            /\ "html_file" \in DOMAIN d.record =>
                   /\ C25_SameFile(d.record.html_file, t.record.html_file)
                   /\ C25_SameFile(d.record.screenshot_file,
                                   t.record.screenshot_file)
                   /\ d.record.url = "https://httpbin.org/html"
                   /\ t.record.url = "https://example.com"

C25_Witness ==
    /\ pc = "compared"
    /\ done["demo"][1].record.success
    /\ done["test"][1].record.success
    /\ done["test"][1].record.headings_found = 1
    /\ done["demo"][1].record.title = Some(<<"H", "M">>)
    /\ Len(done["demo"][1].record.errors) = 1
    /\ done["demo"][1].record.html_file # None
    /\ done["demo"][1].record.html_file # done["test"][1].record.html_file


=============================================================================
